---- MODULE Spec2Model ----
(***************************************************************************)
(* overlayfs-tools: the command line front end (main.c) and the tree       *)
(* comparison core it drives (diff / vacuum / merge).                      *)
(*                                                                         *)
(* Spec          main.c: option parsing, the pre-checks, the mount check,  *)
(*               the dispatch of one action and the exit status.           *)
(* CoreSpec      one walk of a pair of trees, the vacuum or merge plan     *)
(*               made from its verdicts, and the plan's execution.         *)
(* ClassifySpec  the pairwise classifier on every pair of snapshots.       *)
(***************************************************************************)
EXTENDS Integers, Sequences, FiniteSets, TLC

\* ------------------------------------------------------------------ bounds
\* options consumed by the getopt loop of one run
MaxOpts == 3
\* lines of /proc/mounts read by one run of is_mounted
MaxLines == 2
\* tokens of one line of /proc/mounts
MaxLineLen == 4

\* --------------------------------------------------------- program constants
\* <linux/limits.h>, the size of lower[], upper[] and tmp_path[]
PATH_MAX == 4096
\* strlen("/.xattr_test_XXXXXX.tmp")
XATTR_SUFFIX_LEN == 23
\* the length fsetxattr writes and getxattr must report
XATTR_VALUE_LEN == 5

\* #define STRING_BUFFER_SIZE PATH_MAX * 2
STRING_BUFFER_SIZE == PATH_MAX * 2

\* ------------------------------------------------------------------ strings
\* A string is a sequence of tokens, each a run of characters: the words
\* is_mounted searches for, the path components "a" and "b" (one character
\* each), and "x", a run of path characters that with the probe's suffix and
\* the NUL fills tmp_path[] exactly. "" is the empty sequence.
PathTokens == {"a", "b", "x"}
Tokens == {"overlay", "lowerdir=", "upperdir="} \cup PathTokens
EmptyStr == << >>

TokLen(t) ==
    CASE t = "overlay" -> 7
      [] t = "lowerdir=" -> 9
      [] t = "upperdir=" -> 9
      [] t = "x" -> PATH_MAX - XATTR_SUFFIX_LEN - 1
      [] OTHER -> 1

RECURSIVE strlen(_)
strlen(s) == IF s = << >> THEN 0 ELSE TokLen(Head(s)) + strlen(Tail(s))

\* what realpath() can resolve an argument to (at most PATH_MAX - 1 characters)
ResolvedPaths == {<<"a">>, <<"a", "b">>, <<"x">>, <<"x", "a">>}

\* what one fgets(buf, STRING_BUFFER_SIZE, f) can return: at least one and at
\* most STRING_BUFFER_SIZE - 1 characters
Lines == {l \in UNION {[1..n -> Tokens] : n \in 1..MaxLineLen} :
            strlen(l) <= STRING_BUFFER_SIZE - 1}

IsPrefix(s, t) == Len(s) <= Len(t) /\ \A i \in 1..Len(s) : s[i] = t[i]

\* strncmp(a, b, strlen(a)): 0 exactly when a is a prefix of b
strncmp_len(a, b) == IF IsPrefix(a, b) THEN 0 ELSE 1

starts_with(haystack, needle) == Len(haystack) >= 1 /\ haystack[1] = needle

\* strstr(buf, word): the index of the first occurrence, 0 for NULL
strstr(buf, word) ==
    IF \E i \in 1..Len(buf) : buf[i] = word
    THEN CHOOSE i \in 1..Len(buf) : buf[i] = word /\ \A j \in 1..(i - 1) : buf[j] # word
    ELSE 0

\* &(m[strlen("lowerdir=")]): the rest of the line after the word at index i
AfterWord(buf, i) == SubSeq(buf, i + 1, Len(buf))

\* One iteration of the while loop of is_mounted on the line buf:
\* "continue" (the next line) or "true" (return true).
is_mounted_line(buf, lo, up) ==
    IF ~starts_with(buf, "overlay") THEN "continue"
    ELSE IF strlen(buf) = STRING_BUFFER_SIZE THEN "true"
    ELSE IF strstr(buf, "lowerdir=") = 0 \/ strstr(buf, "upperdir=") = 0 THEN "true"
    ELSE IF ~(strncmp_len(lo, AfterWord(buf, strstr(buf, "lowerdir="))) # 0
              /\ strncmp_len(up, AfterWord(buf, strstr(buf, "upperdir="))) # 0)
         THEN "true" ELSE "continue"

\* ------------------------------------------------------------- data model
\* EntrySnapshot: kind, mode_bits, owner_uid, owner_gid, size_bytes,
\* content_fingerprint, link_target, is_opaque. A field that does not apply to
\* the kind is 0 or FALSE.
Kinds == {"Absent", "RegularFile", "Directory", "Symlink", "OtherSpecial", "Whiteout"}

Snap(k, m, u, g, sz, fp, tg, o) ==
    [kind |-> k, mode |-> m, uid |-> u, gid |-> g, size |-> sz, fp |-> fp,
     target |-> tg, opaque |-> o]

Absent == Snap("Absent", 0, 0, 0, 0, 0, 0, FALSE)

Exists(e) == e.kind # "Absent"
IsWhiteout(e) == e.kind = "Whiteout"
IsDir(e) == e.kind = "Directory"

\* every snapshot over two values per field
AllSnaps ==
    {Absent}
    \cup {Snap("RegularFile", m, u, g, sz, fp, 0, FALSE) : m, u, g, sz, fp \in 0..1}
    \cup {Snap("Directory", m, u, g, 0, 0, 0, o) : m, u, g \in 0..1, o \in BOOLEAN}
    \cup {Snap("Symlink", m, u, g, 0, 0, tg, FALSE) : m, u, g, tg \in 0..1}
    \cup {Snap(k, m, u, g, 0, 0, 0, FALSE) : k \in {"OtherSpecial", "Whiteout"}, m, u, g \in 0..1}

\* ---------------------------------------------------------- Pairwise Classifier
SameMeta(lo, up) == lo.mode = up.mode /\ lo.uid = up.uid /\ lo.gid = up.gid

\* the two-phase comparison: the size first, the fingerprint only when it agrees
SameContent(lo, up) == IF lo.size # up.size THEN FALSE ELSE lo.fp = up.fp

\* rule 5: all comparable fields equal. A special file that is no whiteout is
\* never found equal (UnsupportedEntryKind is treated as Modified).
ComparableEqual(lo, up) ==
    /\ SameMeta(lo, up)
    /\ CASE up.kind = "RegularFile" -> SameContent(lo, up)
         [] up.kind = "Symlink" -> lo.target = up.target
         [] up.kind = "Directory" -> TRUE
         [] OTHER -> FALSE

\* the decision order with the whiteout rule moved behind the equality rule
classify_equality_first(lo, up) ==
    IF ~Exists(up) /\ Exists(lo) THEN "Unchanged"
    ELSE IF ~Exists(lo) /\ Exists(up) /\ ~IsWhiteout(up) THEN "Added"
    ELSE IF Exists(lo) /\ Exists(up) /\ lo.kind = up.kind /\ IsDir(up) /\ up.opaque
         THEN "OpaqueReplaced"
    ELSE IF Exists(lo) /\ Exists(up) /\ lo.kind = up.kind
            /\ (ComparableEqual(lo, up) \/ (IsWhiteout(up) /\ SameMeta(lo, up)))
         THEN "Unchanged"
    ELSE IF IsWhiteout(up) /\ Exists(lo) THEN "Deleted"
    ELSE "Modified"

\* classify(lower, upper): the decision order of the classifier, first match wins
classify(lo, up) ==
    IF IsWhiteout(up) /\ Exists(lo) THEN "Deleted"
    ELSE IF ~Exists(up) /\ Exists(lo) THEN "Unchanged"
    ELSE IF ~Exists(lo) /\ Exists(up) /\ ~IsWhiteout(up) THEN "Added"
    ELSE IF Exists(lo) /\ Exists(up) /\ lo.kind = up.kind /\ IsDir(up) /\ up.opaque
         THEN "OpaqueReplaced"
    ELSE IF Exists(lo) /\ Exists(up) /\ lo.kind = up.kind /\ ComparableEqual(lo, up)
         THEN "Unchanged"
    ELSE "Modified"

\* ------------------------------------------------------------------- trees
\* RelativePath: the sequence of names below the root. The trees of the model
\* hold a directory d, its entries d/f and d/s, and d/s/f.
Root == << >>
Paths == {<<"d">>, <<"d", "f">>, <<"d", "s">>, <<"d", "s", "f">>}

Parent(p) == SubSeq(p, 1, Len(p) - 1)
\* q lies strictly below p
Below(q, p) == Len(q) > Len(p) /\ SubSeq(q, 1, Len(p)) = p
Ancestors(p) == {q \in Paths : Below(p, q)}

\* A tree names the entry at every path; Inspect gives the entry's snapshot:
\* two files of one size and different content, a directory, the same
\* directory with other mode bits, the same directory marked opaque, a whiteout.
Inspect(e) ==
    CASE e = "fileX" -> Snap("RegularFile", 0, 0, 0, 1, 0, 0, FALSE)
      [] e = "fileY" -> Snap("RegularFile", 0, 0, 0, 1, 1, 0, FALSE)
      [] e = "dir" -> Snap("Directory", 0, 0, 0, 0, 0, 0, FALSE)
      [] e = "dirChmod" -> Snap("Directory", 1, 0, 0, 0, 0, 0, FALSE)
      [] e = "dirOpaque" -> Snap("Directory", 0, 0, 0, 0, 0, 0, TRUE)
      [] e = "whiteout" -> Snap("Whiteout", 0, 0, 0, 0, 0, 0, FALSE)
      [] OTHER -> Absent

\* inspect(root, relative_path)
At(t, p) == Inspect(t[p])

LowerEntries == {"absent", "fileX", "fileY", "dir"}
UpperEntries == {"absent", "fileX", "fileY", "dir", "dirChmod", "dirOpaque", "whiteout"}

\* a tree gives every path its entry; an entry exists only in a directory
WellFormed(t) ==
    \A p \in Paths : (Exists(At(t, p)) /\ Parent(p) # Root) => IsDir(At(t, Parent(p)))

LowerTrees == {t \in [Paths -> LowerEntries] : WellFormed(t)}
UpperTrees == {t \in [Paths -> UpperEntries] : WellFormed(t)}
EmptyTree == [p \in Paths |-> "absent"]

\* the names are visited in lexicographic order
NameRank(n) == CASE n = "d" -> 1 [] n = "f" -> 2 [] n = "s" -> 3 [] OTHER -> 4

RECURSIVE SortPaths(_)
SortPaths(S) ==
    IF S = {} THEN << >>
    ELSE LET m == CHOOSE x \in S : \A y \in S : NameRank(x[Len(x)]) <= NameRank(y[Len(y)])
         IN  <<m>> \o SortPaths(S \ {m})

\* the entries of directory p in tree t
Listing(t, p) == {q \in Paths : Parent(q) = p /\ Exists(At(t, q))}

\* ------------------------------------------------------------- Tree Walker
\* the items of the walk: a path, and whether its lower side is still valid
Items(ps, valid) == [i \in 1..Len(ps) |-> [path |-> ps[i], lowerValid |-> valid]]

\* a walker that descends below an opaque directory into the real lower subtree
Descend_into_real_lower(v, lo, up, p, lowerT, upperT) ==
    IF v = "Deleted" /\ IsDir(up)
    THEN Items(SortPaths(Listing(upperT, p)), FALSE)
    ELSE IF v = "Added" /\ IsDir(up)
    THEN Items(SortPaths(Listing(upperT, p)), FALSE)
    ELSE IF IsDir(lo) /\ IsDir(up)
    THEN Items(SortPaths(Listing(lowerT, p) \cup Listing(upperT, p)), TRUE)
    ELSE << >>

\* what the walk visits below p once p got verdict v: below an OpaqueReplaced or
\* Deleted upper directory and below an Added upper directory the upper entries
\* against an absent lower side; below two ordinary directories the union of
\* both listings; nothing otherwise
Descend(v, lo, up, p, lowerT, upperT) ==
    IF v \in {"OpaqueReplaced", "Deleted"} /\ IsDir(up)
    THEN Items(SortPaths(Listing(upperT, p)), FALSE)
    ELSE IF v = "Added" /\ IsDir(up)
    THEN Items(SortPaths(Listing(upperT, p)), FALSE)
    ELSE IF IsDir(lo) /\ IsDir(up) /\ ~lo.opaque /\ ~up.opaque
    THEN Items(SortPaths(Listing(lowerT, p) \cup Listing(upperT, p)), TRUE)
    ELSE << >>

\* ---------------------------------------------------------- Action Planners
Op(o, p) == [op |-> o, path |-> p]

\* a vacuum that deletes every Unchanged entry present in upperdir
RECURSIVE VacuumOps_any_kind(_, _)
VacuumOps_any_kind(st, upperT) ==
    IF st = << >> THEN << >>
    ELSE (IF Head(st).verdict = "Unchanged" /\ Exists(At(upperT, Head(st).path))
          THEN <<Op("delete", Head(st).path)>> ELSE << >>)
         \o VacuumOps_any_kind(Tail(st), upperT)

\* Vacuum Planner: a delete for every Unchanged verdict whose upper entry is a
\* regular file present in upperdir
RECURSIVE VacuumOps(_, _)
VacuumOps(st, upperT) ==
    IF st = << >> THEN << >>
    ELSE (IF Head(st).verdict = "Unchanged" /\ At(upperT, Head(st).path).kind = "RegularFile"
          THEN <<Op("delete", Head(st).path)>> ELSE << >>)
         \o VacuumOps(Tail(st), upperT)

\* Merge Planner, one verdict: copy for Added and Modified, remove for Deleted,
\* remove-and-copy of the subtree for OpaqueReplaced
MergeOp(e) ==
    CASE e.verdict \in {"Added", "Modified"} -> <<Op("copy", e.path)>>
      [] e.verdict = "Deleted" -> <<Op("remove", e.path)>>
      [] e.verdict = "OpaqueReplaced" -> <<Op("replace_subtree", e.path)>>
      [] OTHER -> << >>

RECURSIVE MergeVerdicts(_)
MergeVerdicts(st) == IF st = << >> THEN << >> ELSE MergeOp(Head(st)) \o MergeVerdicts(Tail(st))

\* Merge Planner: the operations of the verdicts, then the one that clears upperdir
MergeOps(st) == MergeVerdicts(st) \o <<Op("clear_upper", Root)>>

\* --------------------------------------------------- the deferred operations
\* one operation on the pair of trees t = [lower, upper]
ApplyOp(o, t) ==
    CASE o.op = "delete" ->
           [t EXCEPT !.upper = [q \in Paths |->
               IF q = o.path \/ Below(q, o.path) THEN "absent" ELSE t.upper[q]]]
      [] o.op = "copy" ->
           [t EXCEPT !.lower = [q \in Paths |->
               IF q = o.path THEN t.upper[q]
               ELSE IF Below(q, o.path)
                       /\ ~(IsDir(At(t.upper, o.path)) /\ IsDir(At(t.lower, o.path)))
               THEN "absent"
               ELSE t.lower[q]]]
      [] o.op = "remove" ->
           [t EXCEPT !.lower = [q \in Paths |->
               IF q = o.path \/ Below(q, o.path) THEN "absent" ELSE t.lower[q]]]
      [] o.op = "replace_subtree" ->
           [t EXCEPT !.lower = [q \in Paths |->
               IF q = o.path \/ Below(q, o.path) THEN t.upper[q] ELSE t.lower[q]]]
      [] o.op = "clear_upper" -> [t EXCEPT !.upper = EmptyTree]

\* the operations of a plan executed verbatim and in order
RECURSIVE RunPlan(_, _)
RunPlan(ops, t) == IF ops = << >> THEN t ELSE RunPlan(Tail(ops), ApplyOp(Head(ops), t))

\* ------------------------------------------------------------------- state
VARIABLES
    pc,          \* where main is
    lower,       \* char lower[PATH_MAX]
    upper,       \* char upper[PATH_MAX]
    verbose,
    nopts,       \* options the getopt loop has consumed
    lowerIsDir,  \* lower names an existing directory (what lstat saw)
    upperIsDir,  \* upper names an existing directory (what lstat saw)
    tmp_file,    \* the probe's descriptor: "none", "open", "closed", "failed"
    xattr_ret,   \* what check_xattr_trusted returned: "none", "true", "false"
    upperFiles,  \* the entries of upperdir
    upperFiles0, \* the entries of upperdir when the run started
    lowerFiles,  \* the entries of lowerdir
    lowerFiles0, \* the entries of lowerdir when the run started
    cwd,         \* the process's working directory: a tree's root, or elsewhere
    nlines,      \* lines of /proc/mounts read
    mounted,     \* what is_mounted returned: "none", "true", "false"
    answer,      \* what getchar() returned at the prompt, "none" before
    command,     \* argv[optind] once dispatched, "none" before
    script,      \* FILE *script: "NULL", "open", "closed"
    scriptFile,  \* a script file exists on disk
    invoked,     \* the action called: "none", "diff", "vacuum", "merge"
    out,         \* the action's return value
    printed,     \* the messages written to stdout and stderr
    exitCode,    \* "none", "EXIT_SUCCESS", "EXIT_FAILURE", "SIGNAL"
    \* the core: one walk of a pair of trees, a plan and its execution
    lowerTree,   \* lowerdir
    upperTree,   \* upperdir
    todo,        \* the walk's cursor: the items still to visit, the next one first
    stream,      \* the verdicts emitted so far, (relative_path, ChangeVerdict)
    phase,       \* "walk", "planned", "executed", "error"
    action,      \* the planner that consumed the stream: "vacuum", "merge"
    plan,        \* the deferred operation list
    newLower,    \* lowerdir once the plan was executed
    newUpper,    \* upperdir once the plan was executed
    \* the classifier alone, on one pair of snapshots
    snapLower,
    snapUpper,
    verdict

mainVars == <<pc, lower, upper, verbose, nopts, lowerIsDir, upperIsDir,
              tmp_file, xattr_ret, upperFiles, upperFiles0, lowerFiles, lowerFiles0,
              cwd, nlines, mounted, answer, command, script, scriptFile, invoked, out,
              printed, exitCode>>

argVars == <<lower, upper, verbose, nopts>>
dirVars == <<lowerIsDir, upperIsDir>>
probeVars == <<tmp_file, xattr_ret>>
fsVars == <<upperFiles, upperFiles0, lowerFiles, lowerFiles0, cwd>>
mountVars == <<nlines, mounted, answer>>
actVars == <<command, script, scriptFile, invoked, out>>
endVars == <<printed, exitCode>>

coreVars == <<lowerTree, upperTree, todo, stream, phase, action, plan, newLower, newUpper>>
clVars == <<snapLower, snapUpper, verdict>>

vars == <<mainVars, coreVars, clVars>>

\* what diff, vacuum and merge can return: 0, or a fatal error
OutVals == {-1, 0, 1}
Commands == {"diff", "vacuum", "merge", "frobnicate"}
\* getchar() at the prompt
Answers == {"Y", "y", "n", "EOF"}
DirEntries == {"f"}
ProbeName == ".xattr_test.tmp"
\* char filename_template[] = "overlay-tools-XXXXXX.sh": a name relative to cwd
ScriptName == "overlay-tools.sh"

MainInit ==
    /\ pc = "getopt"
    /\ lower = EmptyStr
    /\ upper = EmptyStr
    /\ verbose = FALSE
    /\ nopts = 0
    /\ lowerIsDir = FALSE
    /\ upperIsDir = FALSE
    /\ tmp_file = "none"
    /\ xattr_ret = "none"
    /\ upperFiles \in SUBSET DirEntries
    /\ upperFiles0 = upperFiles
    /\ lowerFiles \in SUBSET DirEntries
    /\ lowerFiles0 = lowerFiles
    /\ cwd \in {"lowerdir", "upperdir", "elsewhere"}
    /\ nlines = 0
    /\ mounted = "none"
    /\ answer = "none"
    /\ command = "none"
    /\ script = "NULL"
    /\ scriptFile = FALSE
    /\ invoked = "none"
    /\ out = 0
    /\ printed = {}
    /\ exitCode = "none"

\* the front end, the core and the classifier are run one at a time; the other
\* two rest
MainIdle ==
    /\ pc = "idle"
    /\ lower = EmptyStr /\ upper = EmptyStr /\ verbose = FALSE /\ nopts = 0
    /\ lowerIsDir = FALSE /\ upperIsDir = FALSE
    /\ tmp_file = "none" /\ xattr_ret = "none"
    /\ upperFiles = {} /\ upperFiles0 = {} /\ lowerFiles = {} /\ lowerFiles0 = {}
    /\ cwd = "elsewhere"
    /\ nlines = 0 /\ mounted = "none" /\ answer = "none"
    /\ command = "none" /\ script = "NULL" /\ scriptFile = FALSE
    /\ invoked = "none" /\ out = 0
    /\ printed = {} /\ exitCode = "none"

CoreIdle ==
    /\ lowerTree = EmptyTree /\ upperTree = EmptyTree
    /\ todo = << >> /\ stream = << >>
    /\ phase = "idle" /\ action = "none" /\ plan = << >>
    /\ newLower = EmptyTree /\ newUpper = EmptyTree

ClIdle == snapLower = Absent /\ snapUpper = Absent /\ verdict = "idle"

Init == MainInit /\ CoreIdle /\ ClIdle

\* return <code> from main
Exit(code) == pc' = "done" /\ exitCode' = code

\* goto see_help: the hint, then EXIT_FAILURE
SeeHelp(msg) ==
    /\ printed' = printed \cup {msg, "Try --help"}
    /\ Exit("EXIT_FAILURE")

\* ----------------------------------------------------------- option parsing
\* case 'l': realpath(optarg, lower), "" when it fails
GetoptLower ==
    /\ UNCHANGED <<coreVars, clVars>>
    /\ pc = "getopt" /\ nopts < MaxOpts
    /\ \E r \in ResolvedPaths \cup {EmptyStr} : lower' = r
    /\ nopts' = nopts + 1
    /\ UNCHANGED <<pc, upper, verbose, dirVars, probeVars, fsVars, mountVars,
                   actVars, endVars>>

\* case 'u': realpath(optarg, upper), "" when it fails
GetoptUpper ==
    /\ UNCHANGED <<coreVars, clVars>>
    /\ pc = "getopt" /\ nopts < MaxOpts
    /\ \E r \in ResolvedPaths \cup {EmptyStr} : upper' = r
    /\ nopts' = nopts + 1
    /\ UNCHANGED <<pc, lower, verbose, dirVars, probeVars, fsVars, mountVars,
                   actVars, endVars>>

\* case 'h': print_help(); return EXIT_SUCCESS
GetoptHelp ==
    /\ UNCHANGED <<coreVars, clVars>>
    /\ pc = "getopt" /\ nopts < MaxOpts
    /\ printed' = printed \cup {"Usage"}
    /\ Exit("EXIT_SUCCESS")
    /\ nopts' = nopts + 1
    /\ UNCHANGED <<lower, upper, verbose, dirVars, probeVars, fsVars,
                   mountVars, actVars>>

\* case 'v'
GetoptVerbose ==
    /\ UNCHANGED <<coreVars, clVars>>
    /\ pc = "getopt" /\ nopts < MaxOpts
    /\ verbose' = TRUE
    /\ nopts' = nopts + 1
    /\ UNCHANGED <<pc, lower, upper, dirVars, probeVars, fsVars, mountVars,
                   actVars, endVars>>

\* default: an option getopt_long_only does not know
GetoptDefault ==
    /\ UNCHANGED <<coreVars, clVars>>
    /\ pc = "getopt" /\ nopts < MaxOpts
    /\ SeeHelp("Option is not supported")
    /\ nopts' = nopts + 1
    /\ UNCHANGED <<lower, upper, verbose, dirVars, probeVars, fsVars,
                   mountVars, actVars>>

\* directory_exists: lstat succeeded and the entry is a directory
directory_exists_any_kind(lstat_ok, is_dir) == lstat_ok

directory_exists(lstat_ok, is_dir) == lstat_ok /\ is_dir

\* getopt_long_only returned -1, then the four checks of the two directories;
\* lstat's answers are the environment's
ValidateDirs ==
    /\ UNCHANGED <<coreVars, clVars>>
    /\ pc = "getopt"
    /\ \E lo_ok, lo_dir, up_ok, up_dir \in BOOLEAN :
         LET lo == directory_exists(lo_ok, lo_dir)
             up == directory_exists(up_ok, up_dir)
         IN  /\ lowerIsDir' = (lower # EmptyStr /\ lo_ok /\ lo_dir)
             /\ upperIsDir' = (upper # EmptyStr /\ up_ok /\ up_dir)
             /\ IF lower = EmptyStr THEN SeeHelp("Lower directory not specified")
                ELSE IF ~lo THEN SeeHelp("Lower directory cannot be opened")
                ELSE IF upper = EmptyStr THEN SeeHelp("Upper directory not specified")
                ELSE IF ~up THEN SeeHelp("Lower directory cannot be opened")
                ELSE pc' = "xattr_mkstemps" /\ UNCHANGED endVars
    /\ UNCHANGED <<argVars, probeVars, fsVars, mountVars, actVars>>

\* ------------------------------------------------------ check_xattr_trusted
\* strcpy + strcat write strlen(upper) + the suffix + the NUL into tmp_path
TmpPathFits == strlen(upper) + XATTR_SUFFIX_LEN + 1 <= PATH_MAX

\* tmp_path[] overflows: the behaviour is undefined. The builds either stop the
\* process (a fortified strcat, the stack protector, a smashed return address) or
\* go on to mkstemps, which the kernel refuses (the name is PATH_MAX or longer)
XattrOverflow ==
    /\ UNCHANGED <<coreVars, clVars>>
    /\ pc = "xattr_mkstemps" /\ ~TmpPathFits
    /\ \/ /\ pc' = "crashed" /\ exitCode' = "SIGNAL"
          /\ UNCHANGED <<probeVars, printed>>
       \/ /\ tmp_file' = "failed" /\ xattr_ret' = "false"
          /\ pc' = "xattr_return"
          /\ UNCHANGED endVars
    /\ UNCHANGED <<argVars, dirVars, fsVars, mountVars, actVars>>

\* mkstemps(tmp_path, 4): creates the probe in upperdir, or fails and creates
\* nothing (return false)
XattrMkstemps ==
    /\ UNCHANGED <<coreVars, clVars>>
    /\ pc = "xattr_mkstemps" /\ TmpPathFits
    /\ \/ /\ tmp_file' = "open"
          /\ upperFiles' = upperFiles \cup {ProbeName}
          /\ pc' = "xattr_real"
          /\ UNCHANGED xattr_ret
       \/ /\ tmp_file' = "failed" /\ xattr_ret' = "false"
          /\ pc' = "xattr_return"
          /\ UNCHANGED upperFiles
    /\ UNCHANGED <<argVars, dirVars, upperFiles0, lowerFiles, lowerFiles0, cwd,
                   mountVars, actVars, endVars>>

\* real_check_xattr_trusted: fsetxattr's result, then getxattr's length and value
real_check_xattr_trusted(set_ret, get_len, get_naive) ==
    IF set_ret # 0 THEN FALSE
    ELSE IF get_len # XATTR_VALUE_LEN THEN FALSE
    ELSE get_naive

XattrReal ==
    /\ UNCHANGED <<coreVars, clVars>>
    /\ pc = "xattr_real"
    /\ \E set_ret \in {-1, 0}, get_len \in {-1, 4, 5}, get_naive \in BOOLEAN :
         xattr_ret' = IF real_check_xattr_trusted(set_ret, get_len, get_naive)
                      THEN "true" ELSE "false"
    /\ tmp_file' = "closed"
    /\ pc' = "xattr_unlink"
    /\ UNCHANGED <<argVars, dirVars, fsVars, mountVars, actVars, endVars>>

\* unlink(tmp_path); return ret
XattrUnlink ==
    /\ UNCHANGED <<coreVars, clVars>>
    /\ pc = "xattr_unlink"
    /\ upperFiles' = upperFiles \ {ProbeName}
    /\ pc' = "xattr_return"
    /\ UNCHANGED <<argVars, dirVars, probeVars, upperFiles0, lowerFiles, lowerFiles0,
                   cwd, mountVars, actVars, endVars>>

\* main: if (!check_xattr_trusted(upper)) return EXIT_FAILURE
XattrChecked ==
    /\ UNCHANGED <<coreVars, clVars>>
    /\ pc = "xattr_return"
    /\ IF xattr_ret = "true"
       THEN pc' = "is_mounted" /\ UNCHANGED endVars
       ELSE /\ printed' = printed \cup {"cannot write trusted.* xattr"}
            /\ Exit("EXIT_FAILURE")
    /\ UNCHANGED <<argVars, dirVars, probeVars, fsVars, mountVars, actVars>>

\* --------------------------------------------------------------- is_mounted
\* fopen("/proc/mounts", "r"): on failure is_mounted returns true
IsMountedOpen ==
    /\ UNCHANGED <<coreVars, clVars>>
    /\ pc = "is_mounted"
    /\ \/ /\ pc' = "is_mounted_loop"
          /\ UNCHANGED <<mounted, printed>>
       \/ /\ mounted' = "true"
          /\ printed' = printed \cup {"Cannot read /proc/mounts"}
          /\ pc' = "check_mounted"
    /\ UNCHANGED <<argVars, dirVars, probeVars, fsVars, nlines, answer, actVars, exitCode>>

\* one fgets and one pass of the loop body
IsMountedLine ==
    /\ UNCHANGED <<coreVars, clVars>>
    /\ pc = "is_mounted_loop" /\ nlines < MaxLines
    /\ \E buf \in Lines :
         IF is_mounted_line(buf, lower, upper) = "true"
         THEN mounted' = "true" /\ pc' = "check_mounted"
         ELSE UNCHANGED <<mounted, pc>>
    /\ nlines' = nlines + 1
    /\ UNCHANGED <<argVars, dirVars, probeVars, fsVars, answer, actVars, endVars>>

\* fgets returns NULL: return false
IsMountedEof ==
    /\ UNCHANGED <<coreVars, clVars>>
    /\ pc = "is_mounted_loop"
    /\ mounted' = "false"
    /\ pc' = "check_mounted"
    /\ UNCHANGED <<argVars, dirVars, probeVars, fsVars, nlines, answer, actVars, endVars>>

\* check_mounted: true (give up) unless is_mounted is false or the user types Y or y
check_mounted_only_n(is_m, r) == is_m /\ r = "n"

check_mounted(is_m, r) == is_m /\ r # "Y" /\ r # "y"

\* main: if (check_mounted(lower, upper)) return EXIT_FAILURE
CheckMounted ==
    /\ UNCHANGED <<coreVars, clVars>>
    /\ pc = "check_mounted"
    /\ \E r \in Answers :
         /\ answer' = IF mounted = "true" THEN r ELSE "none"
         /\ IF check_mounted(mounted = "true", r)
            THEN Exit("EXIT_FAILURE")
            ELSE pc' = "dispatch" /\ UNCHANGED exitCode
    /\ printed' = IF mounted = "true" THEN printed \cup {"Still continue?"} ELSE printed
    /\ UNCHANGED <<argVars, dirVars, probeVars, fsVars, nlines, mounted, actVars>>

\* ----------------------------------------------------------------- dispatch
\* create_shell_script(filename_template): NULL, or the open script, which
\* the template's relative name puts in the working directory
CreateScript ==
    /\ script' = "open" /\ scriptFile' = TRUE
    /\ lowerFiles' = IF cwd = "lowerdir" THEN lowerFiles \cup {ScriptName} ELSE lowerFiles
    /\ upperFiles' = IF cwd = "upperdir" THEN upperFiles \cup {ScriptName} ELSE upperFiles

NoScript == UNCHANGED <<script, scriptFile, lowerFiles, upperFiles>>

\* if (optind == argc - 1) { ... } with argv[optind] compared to the three
\* actions; vacuum and merge first create the script file
Dispatch ==
    /\ UNCHANGED <<coreVars, clVars>>
    /\ pc = "dispatch"
    /\ \E npos \in 0..2, cmd \in Commands, created \in BOOLEAN :
         IF npos # 1
         THEN /\ printed' = printed \cup {"Please specify one action", "Try --help"}
              /\ Exit("EXIT_FAILURE")
              /\ UNCHANGED command /\ NoScript
         ELSE /\ command' = cmd
              /\ IF cmd = "diff"
                 THEN pc' = "invoke" /\ NoScript /\ UNCHANGED endVars
                 ELSE IF cmd \in {"vacuum", "merge"}
                 THEN IF created
                      THEN CreateScript /\ pc' = "invoke" /\ UNCHANGED endVars
                      ELSE /\ printed' = printed \cup {"Script file cannot be created"}
                           /\ Exit("EXIT_FAILURE")
                           /\ NoScript
                 ELSE SeeHelp("Action not supported") /\ NoScript
    /\ UNCHANGED <<argVars, dirVars, probeVars, upperFiles0, lowerFiles0, cwd, mountVars,
                   invoked, out>>

\* out = diff(...) / vacuum(...) / merge(...): 0, or a fatal error
Invoke ==
    /\ UNCHANGED <<coreVars, clVars>>
    /\ pc = "invoke"
    /\ invoked' = command
    /\ \E r \in OutVals : out' = r
    /\ pc' = "report"
    /\ UNCHANGED <<argVars, dirVars, probeVars, fsVars, mountVars, command, script,
                   scriptFile, endVars>>

\* if (script != NULL) printf("The script %s is created. ...")
announce(scr, o) == scr # "NULL"

\* if (out) return EXIT_FAILURE; return EXIT_SUCCESS;
exit_status_positive_only(o) == IF o > 0 THEN "EXIT_FAILURE" ELSE "EXIT_SUCCESS"

exit_status(o) == IF o # 0 THEN "EXIT_FAILURE" ELSE "EXIT_SUCCESS"

Report ==
    /\ UNCHANGED <<coreVars, clVars>>
    /\ pc = "report"
    /\ script' = IF script # "NULL" THEN "closed" ELSE script
    /\ printed' = printed
                  \cup (IF announce(script, out) THEN {"The script is created"} ELSE {})
                  \cup (IF out # 0 THEN {"Action aborted due to fatal error"} ELSE {})
    /\ Exit(exit_status(out))
    /\ UNCHANGED <<argVars, dirVars, probeVars, fsVars, mountVars, command, scriptFile,
                   invoked, out>>

Next ==
    \/ GetoptLower \/ GetoptUpper \/ GetoptHelp \/ GetoptVerbose \/ GetoptDefault
    \/ ValidateDirs
    \/ XattrOverflow \/ XattrMkstemps \/ XattrReal \/ XattrUnlink \/ XattrChecked
    \/ IsMountedOpen \/ IsMountedLine \/ IsMountedEof \/ CheckMounted
    \/ Dispatch \/ Invoke \/ Report

Spec == Init /\ [][Next]_vars

\* ------------------------------------------------------------ the core
CoreInit ==
    /\ lowerTree \in LowerTrees
    /\ upperTree \in UpperTrees
    /\ todo = Items(SortPaths(Listing(lowerTree, Root) \cup Listing(upperTree, Root)), TRUE)
    /\ stream = << >>
    /\ phase = "walk" /\ action = "none" /\ plan = << >>
    /\ newLower = lowerTree /\ newUpper = upperTree

\* the walk visits its next path: inspect both sides, classify, emit, descend
WalkStep ==
    /\ phase = "walk" /\ todo # << >>
    /\ LET p == Head(todo).path
           lo == IF Head(todo).lowerValid THEN At(lowerTree, p) ELSE Absent
           up == At(upperTree, p)
           v == classify(lo, up)
       IN  /\ stream' = Append(stream, [path |-> p, verdict |-> v])
           /\ todo' = Descend(v, lo, up, p, lowerTree, upperTree) \o Tail(todo)
    /\ UNCHANGED <<lowerTree, upperTree, phase, action, plan, newLower, newUpper>>
    /\ UNCHANGED <<mainVars, clVars>>

\* the Entry Inspector fails on the next path: the whole walk is aborted
WalkIoError ==
    /\ phase = "walk" /\ todo # << >>
    /\ phase' = "error"
    /\ UNCHANGED <<lowerTree, upperTree, todo, stream, action, plan, newLower, newUpper>>
    /\ UNCHANGED <<mainVars, clVars>>

WalkComplete == phase # "error" /\ phase # "idle" /\ todo = << >>

\* the Vacuum Planner consumes the stream of the finished walk
PlanVacuum ==
    /\ phase = "walk" /\ todo = << >>
    /\ action' = "vacuum"
    /\ plan' = VacuumOps(stream, upperTree)
    /\ phase' = "planned"
    /\ UNCHANGED <<lowerTree, upperTree, todo, stream, newLower, newUpper>>
    /\ UNCHANGED <<mainVars, clVars>>

\* the Merge Planner consumes the stream of the finished walk
PlanMerge ==
    /\ phase = "walk" /\ todo = << >>
    /\ action' = "merge"
    /\ plan' = MergeOps(stream)
    /\ phase' = "planned"
    /\ UNCHANGED <<lowerTree, upperTree, todo, stream, newLower, newUpper>>
    /\ UNCHANGED <<mainVars, clVars>>

\* the script is run: the plan's operations, verbatim and in order
Execute ==
    /\ phase = "planned"
    /\ LET t == RunPlan(plan, [lower |-> lowerTree, upper |-> upperTree])
       IN  newLower' = t.lower /\ newUpper' = t.upper
    /\ phase' = "executed"
    /\ UNCHANGED <<lowerTree, upperTree, todo, stream, action, plan>>
    /\ UNCHANGED <<mainVars, clVars>>

CoreNext == WalkStep \/ WalkIoError \/ PlanVacuum \/ PlanMerge \/ Execute

CoreSpecInit == MainIdle /\ CoreInit /\ ClIdle

CoreSpec == CoreSpecInit /\ [][CoreNext]_vars

\* ------------------------------------------------------ the classifier alone
ClInit ==
    /\ snapLower \in AllSnaps /\ snapUpper \in AllSnaps
    /\ Exists(snapLower) \/ Exists(snapUpper)
    /\ verdict = "none"

Classify ==
    /\ verdict = "none"
    /\ verdict' = classify(snapLower, snapUpper)
    /\ UNCHANGED <<snapLower, snapUpper, mainVars, coreVars>>

ClassifyNext == Classify

ClassifySpecInit == MainIdle /\ CoreIdle /\ ClInit

ClassifySpec == ClassifySpecInit /\ [][ClassifyNext]_vars

\* ------------------------------------------------------- properties of main
\* the run has called diff, vacuum or merge
ActionInvoked == invoked # "none"

\* C6: once an action was invoked and main returned, the exit status is
\* EXIT_FAILURE when the action returned a fatal error (out # 0), and it is
\* EXIT_SUCCESS exactly when the action returned 0.
C6_ExitStatusFollowsOut ==
    (pc = "done" /\ ActionInvoked) =>
        /\ (out # 0 => exitCode = "EXIT_FAILURE")
        /\ (exitCode = "EXIT_SUCCESS" <=> out = 0)

C6_Witness ==
    /\ pc = "done" /\ invoked = "diff" /\ out = -1 /\ exitCode = "EXIT_FAILURE"

\* C7: a run whose vacuum or merge returned a fatal error never announces the
\* script as created and ready to be run.
C7_NoAnnouncementAfterFatalError ==
    (invoked \in {"vacuum", "merge"} /\ out # 0) => "The script is created" \notin printed

\* C8 as claimed: no action is invoked once is_mounted reported the overlay as
\* mounted.
C8_NeverInvokedWhenMounted == ActionInvoked => mounted # "true"

\* C8 as amended: an action is invoked after is_mounted reported the overlay as
\* mounted only when the user answered the prompt with Y or y; any other answer
\* ends the run with EXIT_FAILURE and no action.
C8_InvokedWhenMountedOnlyOnYes ==
    /\ (mounted = "true" /\ (ActionInvoked \/ pc \in {"dispatch", "invoke", "report"}))
          => answer \in {"Y", "y"}
    /\ (mounted = "true" /\ answer \in {"n", "EOF"})
          => (pc = "done" /\ exitCode = "EXIT_FAILURE" /\ ~ActionInvoked)

C8_Witness == mounted = "true" /\ answer = "y" /\ invoked = "merge"

\* both directories resolved to existing directories and the probe succeeded
Validated ==
    /\ lower # EmptyStr /\ lowerIsDir
    /\ upper # EmptyStr /\ upperIsDir
    /\ xattr_ret = "true"

\* a pre-check of main said no
PreCheckFailed ==
    \/ "Lower directory not specified" \in printed
    \/ "Lower directory cannot be opened" \in printed
    \/ "Upper directory not specified" \in printed
    \/ "cannot write trusted.* xattr" \in printed
    \/ (mounted = "true" /\ answer \in {"n", "EOF"})

\* C9: an action is called, and a script file created, only on validated input;
\* a failed pre-check, a missing action or an unknown action ends the run with
\* EXIT_FAILURE and no script file; diff never creates one.
C9_CoreOnlyOnValidatedInput ==
    /\ (ActionInvoked \/ scriptFile \/ pc \in {"invoke", "report"}) => Validated
    /\ command = "diff" => ~scriptFile
    /\ (pc = "done" /\ (\/ PreCheckFailed
                        \/ "Please specify one action" \in printed
                        \/ "Action not supported" \in printed))
          => (exitCode = "EXIT_FAILURE" /\ ~scriptFile /\ ~ActionInvoked)

C9_Witness == pc = "done" /\ invoked = "vacuum" /\ scriptFile /\ Validated

\* the probe of check_xattr_trusted is gone whenever the function is not running
ProbeRemovedAtEveryExit ==
    /\ pc \notin {"xattr_real", "xattr_unlink"} => ProbeName \notin upperFiles
    /\ tmp_file = "failed" => (xattr_ret = "false" /\ ProbeName \notin upperFiles)

\* C10: the run leaves both trees as it found them: lowerdir is never written,
\* the probe is unlinked at every exit of check_xattr_trusted so that upperdir
\* holds exactly the entries it had before the run, and a failed mkstemps
\* creates nothing and returns false.
C10_TreesLeftAsFound ==
    /\ lowerFiles = lowerFiles0
    /\ ProbeRemovedAtEveryExit
    /\ pc \notin {"xattr_real", "xattr_unlink"} => upperFiles = upperFiles0

\* --------------------------------------------------- properties of the core
\* the indices of the verdicts emitted for path p
Emitted(p) == {i \in 1..Len(stream) : stream[i].path = p}

\* the verdict the walk gave p is one of vs
HasVerdict(p, vs) == \E i \in Emitted(p) : stream[i].verdict \in vs

\* a snapshot without the overlay's opaque marker
Plain(e) == [e EXCEPT !.opaque = FALSE]

\* the overlay's merged view: the upper entry if it is present and no whiteout,
\* otherwise the lower entry unless a whiteout at the path, or a whiteout, a
\* non-directory or an opaque directory above it, hides it
MergedView(lowerT, upperT) ==
    [p \in Paths |->
        IF IsWhiteout(At(upperT, p)) THEN Absent
        ELSE IF Exists(At(upperT, p)) THEN Plain(At(upperT, p))
        ELSE IF \A q \in Ancestors(p) :
                    \/ ~Exists(At(upperT, q))
                    \/ (IsDir(At(upperT, q)) /\ ~At(upperT, q).opaque /\ IsDir(At(lowerT, q)))
             THEN Plain(At(lowerT, p))
             ELSE Absent]

\* C1: merge, its plan executed in order, leaves a lower tree equal to the merged
\* view of the two trees before the merge, and an empty upperdir.
C1_MergeYieldsMergedView ==
    (phase = "executed" /\ action = "merge") =>
        /\ \A p \in Paths : Plain(At(newLower, p)) = MergedView(lowerTree, upperTree)[p]
        /\ newUpper = EmptyTree

\* C2: below a directory whose verdict is OpaqueReplaced the stream holds no
\* path that exists only in the lower tree and, once the walk is complete, one
\* verdict for every upper path, the one classify gives against an absent lower.
C2_OpaqueSubtreeAgainstAbsentLower ==
    \A d \in Paths : HasVerdict(d, {"OpaqueReplaced"}) =>
        \A p \in Paths : Below(p, d) =>
            /\ ~Exists(At(upperTree, p)) => Emitted(p) = {}
            /\ (Exists(At(upperTree, p)) /\ WalkComplete) =>
                   /\ Cardinality(Emitted(p)) = 1
                   /\ HasVerdict(p, {classify(Absent, At(upperTree, p))})

C2_Witness ==
    /\ WalkComplete
    /\ HasVerdict(<<"d">>, {"OpaqueReplaced"})
    /\ lowerTree[<<"d", "f">>] = "fileX" /\ upperTree[<<"d", "f">>] = "fileX"
    /\ IsDir(At(upperTree, <<"d", "s">>)) /\ Exists(At(upperTree, <<"d", "s", "f">>))
    /\ IsDir(At(lowerTree, <<"d", "s">>)) /\ Exists(At(lowerTree, <<"d", "s", "f">>))
    /\ HasVerdict(<<"d", "f">>, {"Added"})

C4_WhiteoutOverLowerIsDeleted ==
    (verdict \notin {"none", "idle"} /\ IsWhiteout(snapUpper) /\ Exists(snapLower))
        => verdict = "Deleted"

C4_Witness ==
    /\ verdict = "Deleted"
    /\ IsWhiteout(snapUpper) /\ IsWhiteout(snapLower) /\ SameMeta(snapLower, snapUpper)

\* a lower-side path the walk pruned below an OpaqueReplaced or Deleted ancestor
PrunedLower(p) ==
    /\ ~Exists(At(upperTree, p))
    /\ \E q \in Ancestors(p) : HasVerdict(q, {"OpaqueReplaced", "Deleted"})

\* C5: the complete walk emitted exactly one verdict for every path that exists
\* in a tree and was not pruned, and no path twice.
C5_OneVerdictPerPath ==
    WalkComplete =>
        \A p \in Paths :
            /\ Cardinality(Emitted(p)) <= 1
            /\ ((Exists(At(lowerTree, p)) \/ Exists(At(upperTree, p))) /\ ~PrunedLower(p))
                  => Cardinality(Emitted(p)) = 1

====
